---- MODULE Spec2Model ----
(***************************************************************************)
(* The spreadsheet/catalog reconciliation scripts of the Label-Printer     *)
(* repository as one state machine.  A run is one script executed on one   *)
(* spreadsheet snapshot (df) against one catalog server, whose page        *)
(* responses are drawn when the script asks for them.                      *)
(*                                                                         *)
(*   "check_missing_correct"  src/check-missing-correct.py                 *)
(*   "prepare_import"         src/prepare-import-data.py                   *)
(*   "mark_non_excel"         src/mark-non-excel-articles.py               *)
(*   "backend_check"          src/backend/check-missing-articles.py        *)
(*   "compare_excel_system"   src/compare-excel-system.py                  *)
(*                                                                         *)
(* Texts are sequences of one-character strings, so that strip(), replace  *)
(* and the substring test of the code are computed, not assumed.  Prices   *)
(* are integers in hundredths (12.50 is 1250).                             *)
(***************************************************************************)
EXTENDS Integers, Sequences, FiniteSets, TLC

VARIABLES
    script,                 \* which script this run executes
    pc,                     \* position in the script
    raised,                 \* the uncaught exception that ended the run, or "none"
    df,                     \* the spreadsheet: a sequence of rows
    columns,                \* df.columns: the column names, in order
    i,                      \* index of the next row / list element of the running loop
    article_column,         \* the column the article numbers are taken from
    excel_articles,         \* set of article numbers taken from the spreadsheet
    excel_keys,             \* compare_excel_system: the keys of the excel_articles dict,
                            \* in insertion order
    page,                   \* page index of the next request
    requested,              \* page indices requested so far, in order
    responses,              \* responses received so far, in order
    all_system_articles,    \* records accumulated by the pagination loop
    system_article_numbers, \* set of article numbers of the fetched records
    missing,                \* excel_articles - system_article_numbers
    found,                  \* excel_articles & system_article_numbers
    coverage,               \* summary.coverage, in tenths of a percent; -1 before it is computed
    missing_articles,       \* prepare_import: rows whose number is not in the system;
                            \* compare_excel_system: the entries not in the system
    import_articles,        \* prepare_import: the import batch
    stats,                  \* prepare_import: the statistics counters
    in_both,                \* mark_non_excel: fetched records whose number is in the spreadsheet
    only_in_system,         \* mark_non_excel: fetched records whose number is not
    only_in_excel,          \* mark_non_excel: spreadsheet numbers not in the system
    articles_to_mark,       \* mark_non_excel: the records to mark
    articles_not_to_mark,   \* mark_non_excel: the records not to mark
    totalArticles,          \* prepare_import: import_data['totalArticles']; -1 before it is set
    timestamp               \* the 'timestamp' field of the output; 0 before it is set

vars == <<script, pc, raised, df, columns, i, article_column, excel_articles, excel_keys,
          page, requested, responses, all_system_articles, system_article_numbers,
          missing, found, coverage, missing_articles, import_articles, stats, in_both,
          only_in_system, only_in_excel, articles_to_mark, articles_not_to_mark,
          totalArticles, timestamp>>

-----------------------------------------------------------------------------
(* Bounds of the model.                                                    *)

MaxRows == 2        \* rows of the spreadsheet
MaxPages == 2       \* pages the server is asked for before the model stops

-----------------------------------------------------------------------------
(* Texts.                                                                  *)

Space == " "
Euro == "EUR"       \* the one character U+20AC

AufAnfrage == <<"A","u","f"," ","A","n","f","r","a","g","e">>
aufAnfrage == <<"a","u","f"," ","A","n","f","r","a","g","e">>
\* 'Preis nicht verfuegbar' (the umlaut of the source written ue)
PreisNichtVerfuegbar ==
    <<"P","r","e","i","s"," ","n","i","c","h","t"," ","v","e","r","f","u","e","g","b","a","r">>
NanText == <<"n","a","n">>
NoneText == <<"N","o","n","e">>

\* str.strip(): drop leading and trailing whitespace
RECURSIVE lstrip(_)
lstrip(s) == IF s # <<>> /\ Head(s) = Space THEN lstrip(Tail(s)) ELSE s

RECURSIVE rstrip(_)
rstrip(s) ==
    IF s # <<>> /\ s[Len(s)] = Space THEN rstrip(SubSeq(s, 1, Len(s) - 1)) ELSE s

strip(s) == rstrip(lstrip(s))

\* pat in s
Contains(s, pat) ==
    \E k \in 0..(Len(s) - Len(pat)) : SubSeq(s, k + 1, k + Len(pat)) = pat

\* s.replace(from, to) for single characters
ReplaceChar(s, from, to) == [k \in 1..Len(s) |-> IF s[k] = from THEN to ELSE s[k]]

\* s.replace(ch, '')
RemoveChar(s, ch) == SelectSeq(s, LAMBDA c : c # ch)

-----------------------------------------------------------------------------
(* Spreadsheet cells: a missing cell (NaN), a number, or a text.           *)

NaN == [k |-> "nan", v |-> 0, s |-> <<>>]
Num(n) == [k |-> "num", v |-> n, s |-> <<>>]
Txt(t) == [k |-> "str", v |-> 0, s |-> t]

\* pd.isna / pd.notna
isna(c) == c.k = "nan"
notna(c) == ~isna(c)

\* str(value) of an identifier cell (identifier cells are texts or missing)
str(c) == IF c.k = "nan" THEN NanText ELSE c.s

-----------------------------------------------------------------------------
(* Python values of the price analysis: a float, or the text 'Auf Anfrage'. *)

PyFloat(n) == [k |-> "float", v |-> n]
PyMarker == [k |-> "str", v |-> 0]

IsStr(x) == x.k = "str"

\* x == 0 for a float or a str x (a str never equals a number)
EqZero(x) == x.k = "float" /\ x.v = 0

\* x > 0 where it does not raise (x is a float)
Positive(x) == x.k = "float" /\ x.v > 0

\* x != y
NotEqual(x, y) == x # y

Digits == {"0","1","2","3","4","5","6","7","8","9"}

DigitVal(c) ==
    CASE c = "0" -> 0 [] c = "1" -> 1 [] c = "2" -> 2 [] c = "3" -> 3 [] c = "4" -> 4
      [] c = "5" -> 5 [] c = "6" -> 6 [] c = "7" -> 7 [] c = "8" -> 8 [] c = "9" -> 9

RECURSIVE DigitsValue(_)
DigitsValue(s) ==
    IF s = <<>> THEN 0 ELSE 10 * DigitsValue(SubSeq(s, 1, Len(s) - 1)) + DigitVal(s[Len(s)])

\* the part of a float literal after its optional sign
Unsigned(s) == IF s # <<>> /\ Head(s) \in {"+", "-"} THEN Tail(s) ELSE s

\* float(s) succeeds: [sign] digits [. digits], at least one digit
IsFloatLiteral(s) ==
    LET u == Unsigned(s)
    IN  /\ \A k \in 1..Len(u) : u[k] \in Digits \cup {"."}
        /\ Cardinality({k \in 1..Len(u) : u[k] = "."}) <= 1
        /\ \E k \in 1..Len(u) : u[k] \in Digits

\* float(s) in hundredths (the literals of the model carry at most two decimals)
FloatValue(s) ==
    LET u == Unsigned(s)
        dot == IF \E k \in 1..Len(u) : u[k] = "."
               THEN CHOOSE k \in 1..Len(u) : u[k] = "."
               ELSE Len(u) + 1
        whole == SubSeq(u, 1, dot - 1)
        frac == SubSeq(u \o <<"0", "0">>, dot + 1, dot + 2)
        frac2 == IF dot > Len(u) THEN <<"0", "0">> ELSE frac
        abs == 100 * DigitsValue(whole) + DigitsValue(frac2)
    IN  IF s # <<>> /\ Head(s) = "-" THEN 0 - abs ELSE abs

\* val.replace(',', '.').replace(<euro sign>, '').strip()
CleanPriceText(s) == strip(RemoveChar(ReplaceChar(s, ",", "."), Euro))

\* the on-request test of to_float
HasMarker(s) == Contains(s, AufAnfrage) \/ Contains(s, aufAnfrage)

to_float(val) ==
    IF isna(val) THEN PyFloat(0)
    ELSE IF val.k = "str"
         THEN IF HasMarker(val.s) THEN PyMarker
              ELSE IF IsFloatLiteral(CleanPriceText(val.s))
                   THEN PyFloat(FloatValue(CleanPriceText(val.s)))
                   ELSE PyFloat(0)
         ELSE PyFloat(val.v)

-----------------------------------------------------------------------------
(* The price analysis of one row (Fall 1 .. Fall 4), on the four coerced   *)
(* prices.  A comparison of the text 'Auf Anfrage' with a number by > is a *)
(* TypeError; == and != between a text and a number are just False/True.   *)
(* "and", "or" and the elif chain evaluate left to right and stop early.   *)

NoTierText == <<>>

\* (mutant of IsAufAnfrage: the marker in preis1 is not looked at)
IsAufAnfrageZerosOnly(preis1, preis2, preis3, preis4) ==
    EqZero(preis1) /\ EqZero(preis2) /\ EqZero(preis3) /\ EqZero(preis4)

\* Fall 1
IsAufAnfrage(preis1, preis2, preis3, preis4) ==
    \/ preis1 = PyMarker
    \/ EqZero(preis1) /\ EqZero(preis2) /\ EqZero(preis3) /\ EqZero(preis4)

\* evaluating  preis2 > 0 or preis3 > 0 or preis4 > 0  raises
TierTestRaises(preis2, preis3, preis4) ==
    \/ IsStr(preis2)
    \/ ~Positive(preis2) /\ IsStr(preis3)
    \/ ~Positive(preis2) /\ ~Positive(preis3) /\ IsStr(preis4)

\* its value where it does not raise
TierTest(preis2, preis3, preis4) ==
    Positive(preis2) \/ Positive(preis3) \/ Positive(preis4)

\* the three appends of Fall 2, in order; raises when preis3 or preis4 is a text
TierScanRaises(preis1, preis2, preis3, preis4) ==
    IsStr(preis2) \/ IsStr(preis3) \/ IsStr(preis4)

\* (mutant of TierScan: only preis2 is scanned)
TierScanFirstOnly(preis1, preis2, preis3, preis4) ==
    IF Positive(preis2) /\ NotEqual(preis2, preis1) THEN <<preis2.v>> ELSE <<>>

TierScan(preis1, preis2, preis3, preis4) ==
    (IF Positive(preis2) /\ NotEqual(preis2, preis1) THEN <<preis2.v>> ELSE <<>>)
    \o (IF Positive(preis3) /\ NotEqual(preis3, preis2) THEN <<preis3.v>> ELSE <<>>)
    \o (IF Positive(preis4) /\ NotEqual(preis4, preis3) THEN <<preis4.v>> ELSE <<>>)

\* (mutant of BasePrice: price1 is taken whether or not it is positive)
BasePriceAlwaysPreis1(preis1, preis2) == preis1.v

\* article['price'] of Fall 2
BasePrice(preis1, preis2) == IF Positive(preis1) THEN preis1.v ELSE preis2.v

Raise(e) ==
    [raised |-> e, fall |-> "none", price |-> 0, tieredPricesText |-> NoTierText,
     tieredPrices |-> <<>>, verified |-> TRUE, manufacturer |-> "none", stat |-> "none"]

Priced(fall, price, text, tiers, verified, manufacturer, stat) ==
    [raised |-> "none", fall |-> fall, price |-> price, tieredPricesText |-> text,
     tieredPrices |-> tiers, verified |-> verified, manufacturer |-> manufacturer,
     stat |-> stat]

\* lines 106-145: the fields the branch taken sets, starting from verified = True
PriceAnalysis(preis1, preis2, preis3, preis4) ==
    IF IsAufAnfrage(preis1, preis2, preis3, preis4)
    THEN Priced("auf_anfrage", 0, AufAnfrage, <<>>, TRUE, "none", "auf_anfrage")
    ELSE IF TierTestRaises(preis2, preis3, preis4) THEN Raise("TypeError")
    ELSE IF TierTest(preis2, preis3, preis4)
         THEN IF IsStr(preis1) \/ TierScanRaises(preis1, preis2, preis3, preis4)
              THEN Raise("TypeError")
              ELSE LET tiers == TierScan(preis1, preis2, preis3, preis4)
                   IN  IF tiers # <<>>
                       THEN Priced("tiered", BasePrice(preis1, preis2), NoTierText, tiers,
                                   FALSE, "NEEDS_TIER_QUANTITIES", "tiered_price")
                       ELSE Priced("single", BasePrice(preis1, preis2), NoTierText, <<>>,
                                   TRUE, "none", "single_price")
    ELSE IF IsStr(preis1) THEN Raise("TypeError")
    ELSE IF Positive(preis1)
         THEN Priced("single", preis1.v, NoTierText, <<>>, TRUE, "none", "single_price")
         ELSE Priced("unavailable", 0, PreisNichtVerfuegbar, <<>>, TRUE, "none",
                     "auf_anfrage")

-----------------------------------------------------------------------------
(* Inputs: the spreadsheet rows and the server's responses.                *)

\* a row: its cells in the columns Artikelnummer, Artikel and Nr (NaN where the
\* sheet has no such column) and in the four price columns
Row(number, artikel, nr, p1, p2, p3, p4) ==
    [Artikelnummer |-> number, Artikel |-> artikel, Nr |-> nr, Preis |-> <<p1, p2, p3, p4>>]

SheetRow(number, p1, p2, p3, p4) == Row(number, NaN, NaN, p1, p2, p3, p4)

\* row[col]
Cell(row, col) ==
    CASE col = "Artikelnummer" -> row.Artikelnummer
      [] col = "Artikel" -> row.Artikel
      [] col = "Nr" -> row.Nr

\* the columns of the sheet the reconciliation runs read
StandardColumns == <<"Artikelnummer", "Preis 1", "Preis 2", "Preis 3", "Preis 4">>

\* col in df.columns
HasColumn(cols, col) == \E k \in 1..Len(cols) : cols[k] = col

\* The rows a spreadsheet of the reconciliation runs is made of: identifier
\* cells with and without surrounding whitespace, a missing cell, a
\* whitespace-only cell, and the same identifier on two rows.
SheetRows ==
    { SheetRow(Txt(<<" ", "A", " ">>), Num(1000), NaN, NaN, NaN),
      SheetRow(Txt(<<"B">>), Num(1000), Num(1500), Num(1500), Num(0)),
      SheetRow(NaN, NaN, NaN, NaN, NaN),
      SheetRow(Txt(<<" ", " ">>), Txt(AufAnfrage), NaN, NaN, NaN),
      SheetRow(Txt(<<"A">>), Num(0), Num(0), Num(0), Num(0)) }

\* the price cells of the rows whose price analysis is explored in full
PriceCells ==
    { NaN, Num(0), Num(1000), Num(1500), Num(0 - 500),
      Txt(AufAnfrage),
      Txt(<<"a","u","f"," ","a","n","f","r","a","g","e">>),
      Txt(<<"1","2",",","5","0"," ",Euro>>),
      Txt(<<"a","b","c">>) }

\* catalog records: the identifier field may need trimming, or be absent
SystemRecord(id, has, number) == [id |-> id, has |-> has, articleNumber |-> number]

recA == SystemRecord(1, TRUE, <<"A">>)
recB == SystemRecord(2, TRUE, <<" ", "B", " ">>)
recNoNumber == SystemRecord(3, FALSE, <<>>)

DataLists == { <<>>, <<recA>>, <<recB>>, <<recNoNumber>>, <<recA, recB>> }

\* a body that response.json() parses to the envelope
Response(success, data, hasNext) ==
    [envelope |-> TRUE, success |-> success, data |-> data, hasNext |-> hasNext]

\* a body that is not JSON (an error page): response.json() raises on it
NotJson == [envelope |-> FALSE, success |-> FALSE, data |-> <<>>, hasNext |-> "absent"]

\* hasNext is true, false, or absent from the envelope
Responses ==
    { Response(TRUE, d, h) : d \in DataLists, h \in {"true", "false", "absent"} }
    \cup { Response(FALSE, d, h) : d \in {<<>>, <<recA>>}, h \in {"true", "absent"} }
    \cup { NotJson }

SeqsUpTo(S, n) == UNION { [1..m -> S] : m \in 0..n }

Scripts ==
    {"check_missing_correct", "prepare_import", "mark_non_excel", "backend_check",
     "compare_excel_system"}

\* article_column = None
None == "None"

\* readings of the clock at the moment a result is built
Clock == {1, 2}

NoTimestamp == 0

NoStats == [single_price |-> 0, tiered_price |-> 0, auf_anfrage |-> 0,
            needs_tier_quantities |-> 0]

\* the state right after pd.read_excel
Start(s, cols, sheet) ==
    /\ script = s
    /\ df = sheet
    /\ columns = cols
    /\ pc = CASE s = "prepare_import" -> "fetch"
            [] s = "backend_check" -> "extract"
            [] OTHER -> "select"
    /\ raised = "none"
    /\ i = 1
    /\ article_column = None
    /\ excel_articles = {}
    /\ excel_keys = <<>>
    /\ page = 1
    /\ requested = <<>>
    /\ responses = <<>>
    /\ all_system_articles = <<>>
    /\ system_article_numbers = {}
    /\ missing = {}
    /\ found = {}
    /\ coverage = 0 - 1
    /\ missing_articles = <<>>
    /\ import_articles = <<>>
    /\ stats = NoStats
    /\ in_both = <<>>
    /\ only_in_system = <<>>
    /\ only_in_excel = <<>>
    /\ articles_to_mark = <<>>
    /\ articles_not_to_mark = <<>>
    /\ totalArticles = 0 - 1
    /\ timestamp = NoTimestamp

Init ==
    \E s \in Scripts : \E sheet \in SeqsUpTo(SheetRows, MaxRows) :
        Start(s, StandardColumns, sheet)

-----------------------------------------------------------------------------
(* Steps shared by the scripts.                                            *)

inputVars == <<script, df, columns>>
selectVars == <<article_column, excel_keys>>
saveVars == <<totalArticles, timestamp>>
fetchVars == <<page, requested, responses, all_system_articles>>
compareVars == <<missing, found, coverage>>
importVars == <<missing_articles, import_articles, stats>>
markVars == <<in_both, only_in_system, only_in_excel, articles_to_mark,
              articles_not_to_mark>>

\* an uncaught exception ends the run
Crash(e) == pc' = "crashed" /\ raised' = e

\* truthiness of article.get('articleNumber')
Truthy(a) == a.has /\ a.articleNumber # <<>>

\* all orders in which the elements of a set can be listed
Orderings(S) ==
    { f \in [1..Cardinality(S) -> S] : \A a, b \in 1..Cardinality(S) : a # b => f[a] # f[b] }

\* percentage with one decimal, in tenths of a percent: f"{n / d * 100:.1f}%"
PercentTenths(n, d) == (2000 * n + d) \div (2 * d)

\* (mutant of FetchStep: the records of a refused page are kept as well)
FetchStepKeepsRefused(resp, accepted, after) ==
    /\ page <= MaxPages
    /\ requested' = Append(requested, page)
    /\ responses' = Append(responses, resp)
    /\ IF ~resp.envelope
       THEN Crash("JSONDecodeError") /\ UNCHANGED <<page, all_system_articles>>
       ELSE /\ raised' = raised
            /\ all_system_articles' = all_system_articles \o resp.data
            /\ IF accepted /\ resp.hasNext = "true"
               THEN page' = page + 1 /\ pc' = pc
               ELSE page' = page /\ pc' = after

\* (mutant of FetchStep: the records of the page that ends the loop are dropped)
FetchStepDropsLastPage(resp, accepted, after) ==
    /\ page <= MaxPages
    /\ requested' = Append(requested, page)
    /\ responses' = Append(responses, resp)
    /\ IF ~resp.envelope
       THEN Crash("JSONDecodeError") /\ UNCHANGED <<page, all_system_articles>>
       ELSE /\ raised' = raised
            /\ IF accepted /\ resp.hasNext = "true"
               THEN /\ all_system_articles' = all_system_articles \o resp.data
                    /\ page' = page + 1 /\ pc' = pc
               ELSE /\ all_system_articles' = all_system_articles
                    /\ page' = page
                    /\ pc' = after

\* one pass of a pagination loop: request `page`, parse the body, then extend and
\* go on, or stop
FetchStep(resp, accepted, after) ==
    /\ page <= MaxPages
    /\ requested' = Append(requested, page)
    /\ responses' = Append(responses, resp)
    /\ IF ~resp.envelope
       THEN Crash("JSONDecodeError") /\ UNCHANGED <<page, all_system_articles>>
       ELSE /\ raised' = raised
            /\ IF accepted
               THEN /\ all_system_articles' = all_system_articles \o resp.data
                    /\ IF resp.hasNext = "true"
                       THEN page' = page + 1 /\ pc' = pc
                       ELSE page' = page /\ pc' = after
               ELSE /\ all_system_articles' = all_system_articles
                    /\ page' = page
                    /\ pc' = after

-----------------------------------------------------------------------------
(* check-missing-correct.py                                                *)

\* (mutant of ArticleNum: the strip() is forgotten)
ArticleNumUntrimmed(value) == str(value)

\* article_num = str(value).strip()
ArticleNum(value) == strip(str(value))

\* the body of  for value in df[first_column]
ExtractRow ==
    /\ pc = "extract"
    /\ i <= Len(df)
    /\ LET value == Cell(df[i], article_column)
           article_num == ArticleNum(value)
       IN  excel_articles' =
               IF notna(value) /\ article_num # <<>> /\ article_num # NanText
               THEN excel_articles \cup {article_num}
               ELSE excel_articles
    /\ i' = i + 1
    /\ UNCHANGED <<inputVars, pc, raised, fetchVars, system_article_numbers,
                   compareVars, importVars, markVars, selectVars, saveVars>>

\* first_column = df.columns[0]
FirstColumn ==
    /\ pc = "select"
    /\ article_column' = columns[1]
    /\ pc' = "extract"
    /\ UNCHANGED <<inputVars, raised, i, excel_articles, fetchVars,
                   system_article_numbers, compareVars, importVars, markVars,
                   excel_keys, saveVars>>

K_SelectColumn == script = "check_missing_correct" /\ FirstColumn

K_ExtractRow == script = "check_missing_correct" /\ ExtractRow

K_ExtractDone ==
    /\ script = "check_missing_correct"
    /\ pc = "extract"
    /\ i > Len(df)
    /\ pc' = "probe"
    /\ UNCHANGED <<inputVars, raised, i, excel_articles, fetchVars,
                   system_article_numbers, compareVars, importVars, markVars, selectVars, saveVars>>

\* the request with limit=1: its body is parsed, its advertised total only printed
K_Probe ==
    /\ script = "check_missing_correct"
    /\ pc = "probe"
    /\ \E resp \in {Response(TRUE, <<>>, "absent"), NotJson} :
           IF resp.envelope
           THEN pc' = "fetch" /\ raised' = raised
           ELSE Crash("JSONDecodeError")
    /\ UNCHANGED <<inputVars, i, excel_articles, fetchVars,
                   system_article_numbers, compareVars, importVars, markVars, selectVars, saveVars>>

K_FetchPage ==
    /\ script = "check_missing_correct"
    /\ pc = "fetch"
    /\ \E resp \in Responses : FetchStep(resp, resp.success, "numbers")
    /\ UNCHANGED <<inputVars, i, excel_articles, system_article_numbers,
                   compareVars, importVars, markVars, selectVars, saveVars>>

\* the set of article numbers of the records that have one
SystemNumbers(articles) ==
    { strip(articles[k].articleNumber) : k \in { n \in 1..Len(articles) : Truthy(articles[n]) } }

K_SystemNumbers ==
    /\ script = "check_missing_correct"
    /\ pc = "numbers"
    /\ system_article_numbers' = SystemNumbers(all_system_articles)
    /\ pc' = "compare"
    /\ UNCHANGED <<inputVars, raised, i, excel_articles, fetchVars, compareVars,
                   importVars, markVars, selectVars, saveVars>>

Missing(excel, system) == excel \ system

Found(excel, system) == excel \cap system

K_Compare ==
    /\ script = "check_missing_correct"
    /\ pc = "compare"
    /\ missing' = Missing(excel_articles, system_article_numbers)
    /\ found' = Found(excel_articles, system_article_numbers)
    /\ pc' = "result"
    /\ UNCHANGED <<inputVars, raised, i, excel_articles, fetchVars,
                   system_article_numbers, coverage, importVars, markVars, selectVars, saveVars>>

\* result['summary']: the division by len(excel_articles) is unguarded
K_Result ==
    /\ script = "check_missing_correct"
    /\ pc = "result"
    /\ IF Cardinality(excel_articles) = 0
       THEN Crash("ZeroDivisionError") /\ coverage' = coverage
       ELSE /\ coverage' = PercentTenths(Cardinality(found), Cardinality(excel_articles))
            /\ pc' = "done"
            /\ raised' = raised
    /\ UNCHANGED <<inputVars, i, excel_articles, fetchVars, system_article_numbers,
                   missing, found, importVars, markVars, selectVars, saveVars>>

-----------------------------------------------------------------------------
(* prepare-import-data.py                                                  *)

P_FetchPage ==
    /\ script = "prepare_import"
    /\ pc = "fetch"
    /\ \E resp \in Responses :
           FetchStep(resp, resp.success /\ resp.data # <<>>, "numbers")
    /\ UNCHANGED <<inputVars, i, excel_articles, system_article_numbers,
                   compareVars, importVars, markVars, selectVars, saveVars>>

\* {str(a['articleNumber']).strip() for a in all_system_articles}
P_SystemNumbers ==
    /\ script = "prepare_import"
    /\ pc = "numbers"
    /\ IF \E k \in 1..Len(all_system_articles) : ~all_system_articles[k].has
       THEN Crash("KeyError") /\ UNCHANGED system_article_numbers
       ELSE /\ system_article_numbers' =
                   { strip(all_system_articles[k].articleNumber) :
                         k \in 1..Len(all_system_articles) }
            /\ pc' = "identify"
            /\ raised' = raised
    /\ UNCHANGED <<inputVars, i, excel_articles, fetchVars, compareVars, importVars,
                   markVars, selectVars, saveVars>>

\* a row is kept when its number is not in the system and is not 'nan'
IsMissingRow(article_num, system) == article_num \notin system /\ article_num # NanText

P_IdentifyRow ==
    /\ script = "prepare_import"
    /\ pc = "identify"
    /\ i <= Len(df)
    /\ LET article_num == strip(str(df[i].Artikelnummer))
       IN  missing_articles' =
               IF IsMissingRow(article_num, system_article_numbers)
               THEN Append(missing_articles, df[i])
               ELSE missing_articles
    /\ i' = i + 1
    /\ UNCHANGED <<inputVars, pc, raised, excel_articles, fetchVars,
                   system_article_numbers, compareVars, import_articles, stats,
                   markVars, selectVars, saveVars>>

P_IdentifyDone ==
    /\ script = "prepare_import"
    /\ pc = "identify"
    /\ i > Len(df)
    /\ pc' = "classify"
    /\ i' = 1
    /\ UNCHANGED <<inputVars, raised, excel_articles, fetchVars,
                   system_article_numbers, compareVars, importVars, markVars, selectVars, saveVars>>

Article(number, r) ==
    [articleNumber |-> number, price |-> r.price,
     tieredPricesText |-> r.tieredPricesText, tieredPrices |-> r.tieredPrices,
     verified |-> r.verified, manufacturer |-> r.manufacturer]

Count(st, r) ==
    [single_price |-> st.single_price + (IF r.stat = "single_price" THEN 1 ELSE 0),
     tiered_price |-> st.tiered_price + (IF r.stat = "tiered_price" THEN 1 ELSE 0),
     auf_anfrage |-> st.auf_anfrage + (IF r.stat = "auf_anfrage" THEN 1 ELSE 0),
     needs_tier_quantities |->
         st.needs_tier_quantities + (IF r.stat = "tiered_price" THEN 1 ELSE 0)]

\* the price analysis of a row, from its four raw cells
RowAnalysis(row) ==
    PriceAnalysis(to_float(row.Preis[1]), to_float(row.Preis[2]),
                  to_float(row.Preis[3]), to_float(row.Preis[4]))

\* the body of  for row in missing_articles
P_ClassifyRow ==
    /\ script = "prepare_import"
    /\ pc = "classify"
    /\ i <= Len(missing_articles)
    /\ LET row == missing_articles[i]
           r == RowAnalysis(row)
       IN  IF r.raised # "none"
           THEN Crash(r.raised) /\ UNCHANGED <<i, import_articles, stats>>
           ELSE /\ import_articles' =
                       Append(import_articles,
                              Article(strip(str(row.Artikelnummer)), r))
                /\ stats' = Count(stats, r)
                /\ i' = i + 1
                /\ UNCHANGED <<pc, raised>>
    /\ UNCHANGED <<inputVars, excel_articles, fetchVars, system_article_numbers,
                   compareVars, missing_articles, markVars, selectVars, saveVars>>

\* import_data is written once the loop is through
P_Save ==
    /\ script = "prepare_import"
    /\ pc = "classify"
    /\ i > Len(missing_articles)
    /\ totalArticles' = Len(import_articles)
    /\ timestamp' \in Clock
    /\ pc' = "done"
    /\ UNCHANGED <<inputVars, raised, i, excel_articles, fetchVars,
                   system_article_numbers, compareVars, importVars, markVars,
                   selectVars>>

-----------------------------------------------------------------------------
(* mark-non-excel-articles.py                                              *)

M_SelectColumn == script = "mark_non_excel" /\ FirstColumn

M_ExtractRow == script = "mark_non_excel" /\ ExtractRow

M_ExtractDone ==
    /\ script = "mark_non_excel"
    /\ pc = "extract"
    /\ i > Len(df)
    /\ pc' = "fetch"
    /\ UNCHANGED <<inputVars, raised, i, excel_articles, fetchVars,
                   system_article_numbers, compareVars, importVars, markVars, selectVars, saveVars>>

M_FetchPage ==
    /\ script = "mark_non_excel"
    /\ pc = "fetch"
    /\ \E resp \in Responses :
           FetchStep(resp, resp.success /\ resp.data # <<>>, "analyse")
    /\ UNCHANGED <<inputVars, i, excel_articles, system_article_numbers,
                   compareVars, importVars, markVars, selectVars, saveVars>>

\* str(article.get('articleNumber', '')).strip()
ArtNum(a) == strip(IF a.has THEN a.articleNumber ELSE <<>>)

\* str(a.get('articleNumber')).strip(): a record without the field gives 'None'
SystemNumber(a) == strip(IF a.has THEN a.articleNumber ELSE NoneText)

InExcel(a) == ArtNum(a) \in excel_articles

NotInExcel(a) == ArtNum(a) \notin excel_articles

\* lines 61-77; a set is iterated in an order the run does not control
M_Analyse ==
    /\ script = "mark_non_excel"
    /\ pc = "analyse"
    /\ in_both' = SelectSeq(all_system_articles, InExcel)
    /\ only_in_system' = SelectSeq(all_system_articles, NotInExcel)
    /\ system_article_numbers' =
           { SystemNumber(all_system_articles[k]) : k \in 1..Len(all_system_articles) }
    /\ only_in_excel' \in Orderings(excel_articles \ system_article_numbers')
    /\ pc' = "commands"
    /\ UNCHANGED <<inputVars, raised, i, excel_articles, fetchVars, compareVars,
                   importVars, articles_to_mark, articles_not_to_mark, selectVars,
                   saveVars>>

Mark(a, flag) == [id |-> a.id, articleNumber |-> a.articleNumber, markAsNotInExcel |-> flag]

\* article['articleNumber'] of a record without the field is a KeyError
M_Commands ==
    /\ script = "mark_non_excel"
    /\ pc = "commands"
    /\ IF \E k \in 1..Len(only_in_system) : ~only_in_system[k].has
       THEN Crash("KeyError") /\ UNCHANGED <<articles_to_mark, articles_not_to_mark>>
       ELSE /\ articles_to_mark' =
                   [k \in 1..Len(only_in_system) |-> Mark(only_in_system[k], TRUE)]
            /\ articles_not_to_mark' =
                   [k \in 1..Len(in_both) |-> Mark(in_both[k], FALSE)]
            /\ pc' = "result"
            /\ raised' = raised
    /\ UNCHANGED <<inputVars, i, excel_articles, fetchVars, system_article_numbers,
                   compareVars, importVars, in_both, only_in_system, only_in_excel,
                   selectVars, saveVars>>

\* result: the lists as they stand, under the time of the run
M_Result ==
    /\ script = "mark_non_excel"
    /\ pc = "result"
    /\ timestamp' \in Clock
    /\ pc' = "done"
    /\ UNCHANGED <<inputVars, raised, i, excel_articles, fetchVars,
                   system_article_numbers, compareVars, importVars, markVars,
                   selectVars, totalArticles>>

-----------------------------------------------------------------------------
(* backend/check-missing-articles.py                                       *)

\* the column names tried, in this order
article_columns ==
    <<"Artikel", "Artikelnummer", "Art.-Nr.", "Art.Nr.", "Artikel-Nr.", "ArtikelNr">>

\* for col in candidates: if col in df.columns: ... break
RECURSIVE FirstPresent(_, _)
FirstPresent(candidates, cols) ==
    IF candidates = <<>> THEN None
    ELSE IF HasColumn(cols, Head(candidates)) THEN Head(candidates)
    ELSE FirstPresent(Tail(candidates), cols)

\* df[col].dropna().astype(str).str.strip()
ColumnValues(sheet, col) ==
    { strip(str(Cell(sheet[k], col))) :
          k \in { n \in 1..Len(sheet) : notna(Cell(sheet[n], col)) } }

\* the loop over article_columns: nothing is added when no name is present
B_Extract ==
    /\ script = "backend_check"
    /\ pc = "extract"
    /\ LET col == FirstPresent(article_columns, columns)
       IN  /\ article_column' = col
           /\ excel_articles' =
                  IF col = None THEN excel_articles
                  ELSE excel_articles \cup ColumnValues(df, col)
    /\ pc' = "fetch"
    /\ UNCHANGED <<inputVars, raised, i, fetchVars, system_article_numbers,
                   compareVars, importVars, markVars, excel_keys, saveVars>>

\* the one request, with limit=2000
B_Fetch ==
    /\ script = "backend_check"
    /\ pc = "fetch"
    /\ \E resp \in Responses :
           /\ responses' = Append(responses, resp)
           /\ IF resp.envelope
              THEN pc' = "compare" /\ raised' = raised
              ELSE Crash("JSONDecodeError")
    /\ UNCHANGED <<inputVars, i, excel_articles, page, requested,
                   all_system_articles, system_article_numbers, compareVars,
                   importVars, markVars, selectVars, saveVars>>

B_Compare ==
    /\ script = "backend_check"
    /\ pc = "compare"
    /\ LET system_data == responses[Len(responses)]
       IN  IF system_data.success
           THEN /\ system_article_numbers' = SystemNumbers(system_data.data)
                /\ missing' = excel_articles \ system_article_numbers'
                /\ found' = excel_articles \cap system_article_numbers'
           ELSE UNCHANGED <<system_article_numbers, missing, found>>
    /\ pc' = "done"
    /\ UNCHANGED <<inputVars, raised, i, excel_articles, fetchVars, coverage,
                   importVars, markVars, selectVars, saveVars>>

-----------------------------------------------------------------------------
(* compare-excel-system.py                                                 *)

\* the first name of article_columns that is a column, else the first column
E_SelectColumn ==
    /\ script = "compare_excel_system"
    /\ pc = "select"
    /\ LET col == FirstPresent(article_columns, columns)
       IN  article_column' = IF col = None THEN columns[1] ELSE col
    /\ pc' = "extract"
    /\ UNCHANGED <<inputVars, raised, i, excel_articles, fetchVars,
                   system_article_numbers, compareVars, importVars, markVars,
                   excel_keys, saveVars>>

\* the body of  for index, row in df.iterrows(); of article_data the key is kept
E_ExtractRow ==
    /\ script = "compare_excel_system"
    /\ pc = "extract"
    /\ i <= Len(df)
    /\ LET value == Cell(df[i], article_column)
           article_number == strip(str(value))
           \* for a missing cell article_number is None, which is falsy
           kept == notna(value) /\ article_number # <<>> /\ article_number # NanText
       IN  /\ excel_articles' =
                  IF kept THEN excel_articles \cup {article_number} ELSE excel_articles
           /\ excel_keys' =
                  IF kept /\ article_number \notin excel_articles
                  THEN Append(excel_keys, article_number)
                  ELSE excel_keys
    /\ i' = i + 1
    /\ UNCHANGED <<inputVars, pc, raised, article_column, fetchVars,
                   system_article_numbers, compareVars, importVars, markVars,
                   saveVars>>

E_ExtractDone ==
    /\ script = "compare_excel_system"
    /\ pc = "extract"
    /\ i > Len(df)
    /\ pc' = "fetch"
    /\ UNCHANGED <<inputVars, raised, i, excel_articles, fetchVars,
                   system_article_numbers, compareVars, importVars, markVars,
                   selectVars, saveVars>>

\* the one request, inside try/except: any failure leaves system_articles empty
E_Fetch ==
    /\ script = "compare_excel_system"
    /\ pc = "fetch"
    /\ \E resp \in Responses :
           /\ responses' = Append(responses, resp)
           /\ system_article_numbers' =
                  IF resp.envelope /\ resp.success THEN SystemNumbers(resp.data) ELSE {}
    /\ pc' = "compare"
    /\ UNCHANGED <<inputVars, raised, i, excel_articles, page, requested,
                   all_system_articles, compareVars, importVars, markVars,
                   selectVars, saveVars>>

NotInSystem(article_number) == article_number \notin system_article_numbers

\* for article_number, excel_data in excel_articles.items()
E_Compare ==
    /\ script = "compare_excel_system"
    /\ pc = "compare"
    /\ missing_articles' =
           LET keys == SelectSeq(excel_keys, NotInSystem)
           IN  [k \in 1..Len(keys) |-> [articleNumber |-> keys[k]]]
    /\ found' = excel_articles \cap system_article_numbers
    /\ pc' = "result"
    /\ UNCHANGED <<inputVars, raised, i, excel_articles, fetchVars,
                   system_article_numbers, missing, coverage, import_articles, stats,
                   markVars, selectVars, saveVars>>

\* result and missing_simple: coverage is "0%" for an empty spreadsheet set, and
\* missing-articles.json lists missing_articles as it stands
E_Result ==
    /\ script = "compare_excel_system"
    /\ pc = "result"
    /\ coverage' = IF excel_articles = {} THEN 0
                   ELSE PercentTenths(Cardinality(found), Cardinality(excel_articles))
    /\ timestamp' \in Clock
    /\ pc' = "done"
    /\ UNCHANGED <<inputVars, raised, i, excel_articles, fetchVars,
                   system_article_numbers, missing, found, importVars, markVars,
                   selectVars, totalArticles>>

-----------------------------------------------------------------------------
(* The price analysis on its own: prepare-import-data.py at the start of   *)
(* its second loop, with one missing row whose four price cells are any of *)
(* PriceCells (the server refused the first page, so the catalog is empty).*)

InitClassify ==
    \E p1 \in PriceCells, p2 \in PriceCells, p3 \in PriceCells, p4 \in PriceCells :
        LET sheet == <<SheetRow(Txt(<<"B">>), p1, p2, p3, p4)>>
        IN  /\ script = "prepare_import"
            /\ df = sheet
            /\ columns = StandardColumns
            /\ pc = "classify"
            /\ raised = "none"
            /\ i = 1
            /\ article_column = None
            /\ excel_articles = {}
            /\ excel_keys = <<>>
            /\ page = 1
            /\ requested = <<1>>
            /\ responses = <<Response(FALSE, <<>>, "absent")>>
            /\ all_system_articles = <<>>
            /\ system_article_numbers = {}
            /\ missing = {}
            /\ found = {}
            /\ coverage = 0 - 1
            /\ missing_articles = sheet
            /\ import_articles = <<>>
            /\ stats = NoStats
            /\ in_both = <<>>
            /\ only_in_system = <<>>
            /\ only_in_excel = <<>>
            /\ articles_to_mark = <<>>
            /\ articles_not_to_mark = <<>>
            /\ totalArticles = 0 - 1
            /\ timestamp = NoTimestamp

NextClassify == P_ClassifyRow \/ P_Save

SpecClassify == InitClassify /\ [][NextClassify]_vars

-----------------------------------------------------------------------------
(* The column selection on its own: the scripts that read the spreadsheet  *)
(* first, on sheets whose identifier columns vary in name and position.    *)

ColumnNames == {"Nr", "Artikelnummer", "Artikel"}

\* the headers of one or two of these columns
Headers ==
    { <<a>> : a \in ColumnNames }
    \cup { h \in ColumnNames \X ColumnNames : h[1] # h[2] }

IdCells == { Txt(<<" ", "A", " ">>), Txt(<<"B">>), NaN }

\* the rows of a sheet with the columns cols
ColumnRows(cols) ==
    { Row(number, artikel, nr, NaN, NaN, NaN, NaN) :
          number \in IF HasColumn(cols, "Artikelnummer") THEN IdCells ELSE {NaN},
          artikel \in IF HasColumn(cols, "Artikel") THEN IdCells ELSE {NaN},
          nr \in IF HasColumn(cols, "Nr") THEN IdCells ELSE {NaN} }

InitColumns ==
    \E s \in {"check_missing_correct", "backend_check", "compare_excel_system"} :
        \E cols \in Headers : \E sheet \in SeqsUpTo(ColumnRows(cols), MaxRows) :
            Start(s, cols, sheet)

NextColumns ==
    \/ K_SelectColumn \/ K_ExtractRow \/ K_ExtractDone
    \/ B_Extract
    \/ E_SelectColumn \/ E_ExtractRow \/ E_ExtractDone

SpecColumns == InitColumns /\ [][NextColumns]_vars

-----------------------------------------------------------------------------

Next ==
    \/ K_SelectColumn \/ K_ExtractRow \/ K_ExtractDone \/ K_Probe \/ K_FetchPage
    \/ K_SystemNumbers \/ K_Compare \/ K_Result
    \/ P_FetchPage \/ P_SystemNumbers \/ P_IdentifyRow \/ P_IdentifyDone
    \/ P_ClassifyRow \/ P_Save
    \/ M_SelectColumn \/ M_ExtractRow \/ M_ExtractDone \/ M_FetchPage \/ M_Analyse
    \/ M_Commands \/ M_Result
    \/ B_Extract \/ B_Fetch \/ B_Compare
    \/ E_SelectColumn \/ E_ExtractRow \/ E_ExtractDone \/ E_Fetch \/ E_Compare
    \/ E_Result

Spec == Init /\ [][Next]_vars

-----------------------------------------------------------------------------
(* What the claims speak of, stated from the inputs alone.                 *)

Range(f) == { f[k] : k \in DOMAIN f }

Paginating == script \in {"check_missing_correct", "prepare_import", "mark_non_excel"}

\* the run got through its requests and ended, normally or with exception e
EndedWith(e) == pc = "done" \/ (pc = "crashed" /\ raised = e)

\* S: the trimmed texts of the identifier cells that hold an identifier
SheetIds ==
    { strip(c.s) : c \in { d \in { row.Artikelnummer : row \in Range(df) } :
                               d.k = "str" /\ strip(d.s) \notin {<<>>, NanText} } }

\* the records of the pages the server delivered with success = true
Delivered ==
    UNION { Range(r.data) : r \in { q \in Range(responses) : q.envelope /\ q.success } }

\* C: the trimmed identifiers of the delivered records
CatalogIds == { strip(a.articleNumber) : a \in { b \in Delivered : b.has } }

IdsOf(records) == { strip(a.articleNumber) : a \in { b \in Range(records) : b.has } }

\* C1: reconciliation partitions the trimmed identifiers: matched = S \cap C,
\* spreadsheetOnly = S \ C, catalogOnly = C \ S (check-missing-correct.py computes
\* the first two as found and missing; mark-non-excel-articles.py computes all
\* three as record lists; its spreadsheet-only list is compared where every
\* delivered record carries an identifier), so matched and spreadsheetOnly
\* partition S, and matched and catalogOnly partition C.
C1_Partition ==
    /\ (script = "check_missing_correct"
            /\ (pc = "result" \/ EndedWith("ZeroDivisionError"))) =>
           /\ found = SheetIds \cap CatalogIds
           /\ missing = SheetIds \ CatalogIds
           /\ found \cup missing = SheetIds
           /\ found \cap missing = {}
    /\ (script = "mark_non_excel"
            /\ (pc \in {"commands", "result"} \/ EndedWith("KeyError"))) =>
           /\ IdsOf(in_both) = SheetIds \cap CatalogIds
           /\ IdsOf(only_in_system) = CatalogIds \ SheetIds
           /\ IdsOf(in_both) \cup IdsOf(only_in_system) = CatalogIds
           /\ (\A a \in Delivered : a.has) =>
                  /\ Range(only_in_excel) = SheetIds \ CatalogIds
                  /\ IdsOf(in_both) \cup Range(only_in_excel) = SheetIds
                  /\ IdsOf(in_both) \cap Range(only_in_excel) = {}

\* C1 witness: " A " in the spreadsheet and "A" in the catalog are matched, while
\* another spreadsheet identifier is missing
C1_Witness ==
    /\ script = "check_missing_correct"
    /\ pc = "done"
    /\ \E k \in 1..Len(df) : df[k].Artikelnummer = Txt(<<" ", "A", " ">>)
    /\ \A k \in 1..Len(df) : df[k].Artikelnummer # Txt(<<"A">>)
    /\ recA \in Delivered
    /\ <<"A">> \in found
    /\ missing # {}

\* C2: the reported coverage is |matched| / |S|, lies in [0,1], is 1.0 for an
\* empty S, and computing it never fails (in a run that got through its requests)
C2_Coverage ==
    (script = "check_missing_correct" /\ EndedWith("ZeroDivisionError")) =>
        /\ raised = "none"
        /\ coverage \in 0..1000
        /\ coverage = IF SheetIds = {} THEN 1000
                      ELSE PercentTenths(Cardinality(SheetIds \cap CatalogIds),
                                         Cardinality(SheetIds))

\* an identifier as the data model wants it
IsIdentifier(t) == t # <<>> /\ t # NanText /\ strip(t) = t

\* C9: every identifier in the spreadsheet identifier set, the missing list or an
\* import record is the trimmed text of an identifier cell, non-empty and not 'nan';
\* rows with an absent, blank or whitespace-only cell produce none
C9_Identifiers ==
    /\ \A t \in excel_articles : IsIdentifier(t) /\ t \in SheetIds
    /\ \A t \in missing : IsIdentifier(t) /\ t \in SheetIds
    /\ script = "prepare_import" =>
           \A k \in 1..Len(missing_articles) :
               strip(str(missing_articles[k].Artikelnummer)) \in SheetIds
    /\ script = "compare_excel_system" =>
           \A k \in 1..Len(missing_articles) :
               /\ IsIdentifier(missing_articles[k].articleNumber)
               /\ missing_articles[k].articleNumber \in SheetIds
    /\ \A k \in 1..Len(import_articles) :
           /\ IsIdentifier(import_articles[k].articleNumber)
           /\ import_articles[k].articleNumber \in SheetIds

RECURSIVE Flatten(_)
Flatten(pages) == IF pages = <<>> THEN <<>> ELSE Head(pages).data \o Flatten(Tail(pages))

AllButLast(q) == SubSeq(q, 1, Len(q) - 1)

\* C10: a page response with success = false ends the pagination loop: it is the
\* last response of the run, nothing has been raised when the loop is left, and the
\* result is exactly the records of the pages before it
C10_FailedPageStops ==
    (Paginating /\ responses # <<>> /\ responses[Len(responses)].envelope
         /\ ~responses[Len(responses)].success) =>
        /\ pc # "fetch"
        /\ pc \in {"numbers", "analyse"} => raised = "none"
        /\ \A k \in 1..(Len(responses) - 1) : responses[k].success
        /\ Len(requested) = Len(responses)
        /\ all_system_articles = Flatten(AllButLast(responses))

\* C10 witness: a failed second page, carrying records, after a successful first one
C10_Witness ==
    /\ script = "prepare_import"
    /\ pc = "numbers"
    /\ Len(responses) = 2
    /\ responses[1].success /\ responses[1].data = <<recB>>
    /\ ~responses[2].success /\ responses[2].data # <<>>
    /\ all_system_articles = <<recB>>

-----------------------------------------------------------------------------
(* The price analysis as the claims describe it.                           *)

\* the coerced value of price field j of a row
Coerced(row, j) == to_float(row.Preis[j])

IsPositiveNumber(x) == x.k = "float" /\ x.v > 0

\* case (a): price1 is the marker, or all four fields parse to 0
OnRequestRow(row) ==
    \/ Coerced(row, 1) = PyMarker
    \/ \A j \in 1..4 : Coerced(row, j) = PyFloat(0)

\* case (b): not on-request, and some of price2..price4 is positive
TieredRow(row) == ~OnRequestRow(row) /\ \E j \in 2..4 : IsPositiveNumber(Coerced(row, j))

\* case (d): none of the cases (a), (b), (c)
UnavailableRow(row) == ~OnRequestRow(row) /\ \A j \in 1..4 : ~IsPositiveNumber(Coerced(row, j))

\* field j is a tier: positive, and different from the field before it
IsTierField(row, j) ==
    IsPositiveNumber(Coerced(row, j)) /\ Coerced(row, j) # Coerced(row, j - 1)

RECURSIVE TiersFrom(_, _)
TiersFrom(row, j) ==
    IF j > 4 THEN <<>>
    ELSE (IF IsTierField(row, j) THEN <<Coerced(row, j).v>> ELSE <<>>) \o TiersFrom(row, j + 1)

\* the run stopped with an exception while row k was analysed
CrashedAt(k) == pc = "crashed" /\ raised = "TypeError" /\ i = k

\* row k has been analysed and its record emitted
Emitted(k) == k < i /\ k <= Len(import_articles)

OnRequestRecord(a) == a.tieredPricesText = AufAnfrage
UnavailableRecord(a) == a.tieredPricesText = PreisNichtVerfuegbar
TieredRecord(a) == a.tieredPrices # <<>>
SingleRecord(a) == a.tieredPricesText = NoTierText /\ a.tieredPrices = <<>>

ClassesOf(a) ==
    { c \in {"on-request", "unavailable", "tiered", "single"} :
          \/ c = "on-request" /\ OnRequestRecord(a)
          \/ c = "unavailable" /\ UnavailableRecord(a)
          \/ c = "tiered" /\ TieredRecord(a)
          \/ c = "single" /\ SingleRecord(a) }

\* C3: the classification of every record completes without an error and puts
\* the record in exactly one of on-request, tiered, single, unavailable
C3_Total ==
    /\ \A k \in 1..Len(missing_articles) : ~CrashedAt(k)
    /\ \A k \in 1..Len(import_articles) : Cardinality(ClassesOf(import_articles[k])) = 1
    /\ (script = "prepare_import" /\ pc = "done") =>
           Len(import_articles) = Len(missing_articles)

\* C4: a row whose price1 is the on-request marker (whatever the other fields
\* hold) or whose four fields all parse to 0 is emitted with price 0, tier text
\* 'Auf Anfrage', no tier list and verified = true
C4_OnRequest ==
    \A k \in 1..Len(missing_articles) :
        OnRequestRow(missing_articles[k]) =>
            /\ ~CrashedAt(k)
            /\ Emitted(k) =>
                   /\ import_articles[k].price = 0
                   /\ import_articles[k].tieredPricesText = AufAnfrage
                   /\ import_articles[k].tieredPrices = <<>>
                   /\ import_articles[k].verified

\* C4 witness: price1 = 'Auf Anfrage' next to a positive price2, emitted
C4_Witness ==
    /\ pc = "done"
    /\ Len(import_articles) = 1
    /\ missing_articles[1].Preis[1] = Txt(AufAnfrage)
    /\ missing_articles[1].Preis[2] = Num(1500)
    /\ import_articles[1].tieredPricesText = AufAnfrage

\* C5: a row that is not on-request and has a positive value among price2..price4
\* is emitted with exactly the tier list of the fields (in the order price2,
\* price3, price4) that are positive and differ from the field before them; a
\* non-empty list comes with the needs-tier-quantities mark and verified = false
C5_Tiers ==
    \A k \in 1..Len(missing_articles) :
        TieredRow(missing_articles[k]) =>
            /\ ~CrashedAt(k)
            /\ Emitted(k) =>
                   /\ import_articles[k].tieredPrices = TiersFrom(missing_articles[k], 2)
                   /\ TiersFrom(missing_articles[k], 2) # <<>> =>
                          /\ import_articles[k].manufacturer = "NEEDS_TIER_QUANTITIES"
                          /\ ~import_articles[k].verified

\* C6: in the tiered branch the scan comes out empty only when every positive
\* value among price2..price4 equals price1; the record is then a single-price
\* record: price = price1 > 0, no tier list, no mark, verified, counted as single
C6_EmptyScan ==
    /\ \A k \in 1..Len(missing_articles) :
           (Emitted(k) /\ TieredRow(missing_articles[k])
                /\ import_articles[k].tieredPrices = <<>>) =>
               /\ \A j \in 2..4 :
                      IsPositiveNumber(Coerced(missing_articles[k], j)) =>
                          Coerced(missing_articles[k], j) = Coerced(missing_articles[k], 1)
               /\ IsPositiveNumber(Coerced(missing_articles[k], 1))
               /\ import_articles[k].price = Coerced(missing_articles[k], 1).v
               /\ import_articles[k].tieredPricesText = NoTierText
               /\ import_articles[k].manufacturer = "none"
               /\ import_articles[k].verified
    /\ stats.single_price =
           Cardinality({ k \in 1..Len(import_articles) : SingleRecord(import_articles[k]) })
    /\ stats.tiered_price =
           Cardinality({ k \in 1..Len(import_articles) : TieredRecord(import_articles[k]) })

\* C6 witness: price1 = price2 = price3 = 10, emitted without a tier list
C6_Witness ==
    /\ pc = "done"
    /\ Len(import_articles) = 1
    /\ TieredRow(missing_articles[1])
    /\ missing_articles[1].Preis[3] = Num(1000)
    /\ import_articles[1].tieredPrices = <<>>
    /\ stats.single_price = 1

\* C7: a row that is none of on-request, tiered or single-price is emitted with
\* price 0, the tier text 'Preis nicht verfuegbar' (which is not the on-request
\* marker) and verified = true
C7_Unavailable ==
    /\ PreisNichtVerfuegbar # AufAnfrage
    /\ \A k \in 1..Len(missing_articles) :
           UnavailableRow(missing_articles[k]) =>
               /\ ~CrashedAt(k)
               /\ Emitted(k) =>
                      /\ import_articles[k].price = 0
                      /\ import_articles[k].tieredPricesText = PreisNichtVerfuegbar
                      /\ import_articles[k].verified

LowerChar(c) ==
    CASE c = "A" -> "a" [] c = "U" -> "u" [] c = "F" -> "f" [] c = "N" -> "n"
      [] c = "R" -> "r" [] c = "G" -> "g" [] c = "E" -> "e" [] OTHER -> c

Lower(t) == [k \in 1..Len(t) |-> LowerChar(t[k])]

\* the coercion policy: the marker in any letter case; 0 for blank or
\* unparseable; otherwise the decimal number
CoercionPolicy(cell) ==
    IF cell.k = "str" /\ Contains(Lower(cell.s), Lower(AufAnfrage)) THEN PyMarker
    ELSE IF cell.k = "nan" THEN PyFloat(0)
    ELSE IF cell.k = "num" THEN PyFloat(cell.v)
    ELSE IF IsFloatLiteral(CleanPriceText(cell.s))
         THEN PyFloat(FloatValue(CleanPriceText(cell.s)))
         ELSE PyFloat(0)

\* C8: to_float follows the coercion policy on every price field of an analysed
\* row, and '12,50 EUR-sign' in price1 alone gives a single-price record of 12.50
C8_Coercion ==
    \A k \in 1..Len(missing_articles) :
        Emitted(k) =>
            /\ \A j \in 1..4 :
                   Coerced(missing_articles[k], j) = CoercionPolicy(missing_articles[k].Preis[j])
            /\ (/\ missing_articles[k].Preis[1] = Txt(<<"1","2",",","5","0"," ",Euro>>)
                /\ \A j \in 2..4 : missing_articles[k].Preis[j] = NaN) =>
                   /\ import_articles[k].price = 1250
                   /\ SingleRecord(import_articles[k])

-----------------------------------------------------------------------------
(* Malformed responses.                                                    *)

\* a body that is not the envelope, or a page with a record lacking the identifier
Malformed(r) == ~r.envelope \/ \E a \in Range(r.data) : ~a.has

\* C11: a malformed page response never crashes the run: it ends the pagination
\* (it is the last response and the loop is left), nothing is raised on its
\* account, and the records accumulated are those of the pages before it
C11_MalformedTolerated ==
    (Paginating /\ \E k \in 1..Len(responses) : Malformed(responses[k])) =>
        /\ Malformed(responses[Len(responses)]) => pc # "fetch"
        /\ \A k \in 1..(Len(responses) - 1) : ~Malformed(responses[k])
        /\ raised \notin {"JSONDecodeError", "KeyError"}
        /\ pc # "fetch" => all_system_articles = Flatten(AllButLast(responses))

-----------------------------------------------------------------------------
(* Repeatable output.                                                      *)

\* the code point of a character of an identifier
CodePoint(c) == CASE c = " " -> 32 [] c = "A" -> 65 [] c = "B" -> 66 [] c = "a" -> 97
                  [] c = "n" -> 110

\* s < t for two texts
RECURSIVE TextLess(_, _)
TextLess(s, t) ==
    IF t = <<>> THEN FALSE
    ELSE IF s = <<>> THEN TRUE
    ELSE IF Head(s) = Head(t) THEN TextLess(Tail(s), Tail(t))
    ELSE CodePoint(Head(s)) < CodePoint(Head(t))

IsSorted(texts) == \A k \in 1..(Len(texts) - 1) : ~TextLess(texts[k + 1], texts[k])

NumbersOf(entries) == [k \in 1..Len(entries) |-> entries[k].articleNumber]

\* C12: the output of a finished reconciliation run is fixed by the spreadsheet
\* and the catalog responses: the identifier lists it writes as they stand (the
\* spreadsheet-only numbers of mark-non-excel-articles.py, the missing entries of
\* compare-excel-system.py's missing-articles.json) are in sorted order, and it
\* carries no field taken from the clock
C12_Repeatable ==
    /\ (script = "mark_non_excel" /\ pc = "done") =>
           IsSorted(only_in_excel) /\ timestamp = NoTimestamp
    /\ (script = "compare_excel_system" /\ pc = "done") =>
           IsSorted(NumbersOf(missing_articles)) /\ timestamp = NoTimestamp

-----------------------------------------------------------------------------
(* Identifier column selection.                                            *)

\* the first candidate name, in list order, that is a column; else the first column
CandidateColumn(cols) ==
    LET present == { k \in 1..Len(article_columns) : HasColumn(cols, article_columns[k]) }
    IN  IF present = {} THEN cols[1]
        ELSE article_columns[CHOOSE k \in present : \A j \in present : k <= j]

\* the identifiers of the cells of column col
IdsIn(col) ==
    { strip(c.s) : c \in { d \in { Cell(row, col) : row \in Range(df) } :
                               d.k = "str" /\ strip(d.s) \notin {<<>>, NanText} } }

\* C13: the extractor takes the identifiers from the first candidate name present
\* among the columns, and from the first column when none is present: once a
\* script has selected, its column is that one, and once it has extracted, its
\* identifier set is that column's
C13_ColumnSelection ==
    /\ (pc \notin {"select", "extract"} \/ (pc = "extract" /\ script # "backend_check")) =>
           article_column = CandidateColumn(columns)
    /\ pc \notin {"select", "extract"} => excel_articles = IdsIn(CandidateColumn(columns))

-----------------------------------------------------------------------------
(* Pagination.                                                             *)

\* every response so far is an envelope with success = true
AllSuccessful == \A k \in 1..Len(responses) : responses[k].envelope /\ responses[k].success

LastResponse == responses[Len(responses)]

\* C14 (as stated): against a server whose responses are all successful the pages
\* 1, 2, 3, ... are requested in order, each once and one at a time; the loop
\* goes on exactly while the last response reported hasNext = true and stops
\* after the first one that did not; the result is every record of every page
C14_Pagination ==
    (Paginating /\ AllSuccessful) =>
        /\ requested = [k \in 1..Len(requested) |-> k]
        /\ Len(requested) = Len(responses)
        /\ \A k \in 1..(Len(responses) - 1) : responses[k].hasNext = "true"
        /\ (responses # <<>> /\ pc = "fetch") => LastResponse.hasNext = "true"
        /\ (responses # <<>> /\ pc # "fetch") => LastResponse.hasNext # "true"
        /\ all_system_articles = Flatten(responses)

\* what makes a loop go on: hasNext = true and, in prepare-import-data.py and
\* mark-non-excel-articles.py, a page that carries at least one record
GoesOn(r) ==
    r.hasNext = "true" /\ (script = "check_missing_correct" \/ r.data # <<>>)

\* C14 (amended): as stated, except that prepare-import-data.py and
\* mark-non-excel-articles.py also stop after a successful page without records,
\* whatever its hasNext
C14_PaginationOrEmptyPage ==
    (Paginating /\ AllSuccessful) =>
        /\ requested = [k \in 1..Len(requested) |-> k]
        /\ Len(requested) = Len(responses)
        /\ \A k \in 1..(Len(responses) - 1) : GoesOn(responses[k])
        /\ (responses # <<>> /\ pc = "fetch") => GoesOn(LastResponse)
        /\ (responses # <<>> /\ pc # "fetch") => ~GoesOn(LastResponse)
        /\ all_system_articles = Flatten(responses)

\* C14 witness: two successful pages, the second without hasNext; the loop is left
\* with the records of both
C14_Witness ==
    /\ script = "prepare_import"
    /\ pc = "numbers"
    /\ AllSuccessful
    /\ requested = <<1, 2>>
    /\ responses[1].hasNext = "true" /\ responses[1].data = <<recA>>
    /\ responses[2].hasNext = "absent" /\ responses[2].data = <<recB>>
    /\ all_system_articles = <<recA, recB>>

-----------------------------------------------------------------------------
(* The import batch.                                                       *)

\* every identifier cell of the spreadsheet holds an identifier, or is missing
CellsUsable ==
    \A row \in Range(df) :
        isna(row.Artikelnummer) \/ IsIdentifier(strip(str(row.Artikelnummer)))

\* C15: when prepare-import-data.py is through, the import batch holds exactly
\* one record for each identifier of S - C and none for any other, also when an
\* identifier is on several rows, and totalArticles = |S - C|
C15_OneRecordPerIdentifier ==
    (script = "prepare_import" /\ pc = "done" /\ CellsUsable) =>
        /\ Range(NumbersOf(import_articles)) = SheetIds \ CatalogIds
        /\ \A j, k \in 1..Len(import_articles) :
               j # k => import_articles[j].articleNumber # import_articles[k].articleNumber
        /\ totalArticles = Cardinality(SheetIds \ CatalogIds)

-----------------------------------------------------------------------------
(* The base price of a tiered record.                                      *)

\* price1 when it is positive, otherwise price2
BaseOf(row) ==
    IF IsPositiveNumber(Coerced(row, 1)) THEN Coerced(row, 1).v ELSE Coerced(row, 2).v

\* C16 (as stated): a record with a tier list has the base price price1 when
\* price1 is positive and otherwise price2, and that price is strictly positive
C16_PositiveBasePrice ==
    \A k \in 1..Len(missing_articles) :
        (Emitted(k) /\ TieredRecord(import_articles[k])) =>
            /\ import_articles[k].price = BaseOf(missing_articles[k])
            /\ import_articles[k].price > 0

\* C16 (amended): a record with a tier list has the base price price1 when price1
\* is positive and otherwise price2; it is strictly positive when price1 or
\* price2 is
C16_BasePrice ==
    \A k \in 1..Len(missing_articles) :
        (Emitted(k) /\ TieredRecord(import_articles[k])) =>
            /\ import_articles[k].price = BaseOf(missing_articles[k])
            /\ (\E j \in 1..2 : IsPositiveNumber(Coerced(missing_articles[k], j))) =>
                   import_articles[k].price > 0

\* C16 witness: price1 = 0 and price2 = 15 next to a tier: the base price is 15
C16_Witness ==
    /\ pc = "done"
    /\ Len(import_articles) = 1
    /\ missing_articles[1].Preis[1] = Num(0)
    /\ missing_articles[1].Preis[2] = Num(1500)
    /\ missing_articles[1].Preis[3] = Num(1000)
    /\ TieredRecord(import_articles[1])
    /\ import_articles[1].price = 1500

====
